---------------------------- MODULE Spec2Model ----------------------------
(***************************************************************************)
(* A model of the Hy compiler front end: the Tokenizer of                  *)
(* src/tokenization.hpp and the ArenaAllocator of src/arena.hpp.           *)
(*                                                                         *)
(* The two components share no state.  SpecTokenizer runs the tokenizer    *)
(* (one step per iteration of the main loop of Tokenizer::tokenize).       *)
(* SpecArena runs two arena objects over every capacity and type, and      *)
(* SpecOwnership runs MaxArenas arena objects over fewer of them.          *)
(* SpecPrec runs the precedence query bin_prec over the token kinds.       *)
(*                                                                         *)
(* Characters are one-character strings, a source text is a sequence of    *)
(* characters, and m_index is the 0-based cursor of the C++ code.          *)
(***************************************************************************)
EXTENDS Integers, Sequences, FiniteSets, TLC

VARIABLES
    m_src,       \* Tokenizer::m_src
    m_index,     \* Tokenizer::m_index
    tokens,      \* tokenize(): std::vector<Token> tokens
    line_count,  \* tokenize(): int line_count
    pc,          \* "idle" (not inside tokenize), "scan" (in the main loop), "exited" (exit(EXIT_FAILURE))
    returned,    \* the token vectors returned by the completed tokenize() calls, in order
    starts,      \* history: starts[k] is the 0-based index in m_src at which tokens[k] starts
    arenas,      \* the ArenaAllocator objects: slot -> [live, m_size, m_buffer, m_offset]
    heap,        \* the live blocks of new std::byte[n]: a set of [base, size]
    allocs,      \* history: the regions handed out of the live blocks, in order
    double_free, \* history: delete[] was applied to a block that is not live
    ret,         \* history: the last arena operation, the objects it saw and what it returned
    queries      \* history: the calls of bin_prec, each with the kind given and the result

tokVars == <<m_src, m_index, tokens, line_count, pc, returned, starts>>

arenaVars == <<arenas, heap, allocs, double_free, ret>>

precVars == <<queries>>

vars == <<tokVars, arenaVars, precVars>>

(***************************************************************************)
(* Bounds of the tokenizer model.                                          *)
(***************************************************************************)
MaxChunks == 3
MaxCalls == 2

\* the number of bin_prec calls of a run
MaxQueries == 2

(***************************************************************************)
(* <cctype> in the "C" locale, restricted to ASCII as the source text is.  *)
(***************************************************************************)
Lower == {"a", "b", "c", "d", "e", "f", "g", "h", "i", "j", "k", "l", "m",
          "n", "o", "p", "q", "r", "s", "t", "u", "v", "w", "x", "y", "z"}

Upper == {"A", "B", "C", "D", "E", "F", "G", "H", "I", "J", "K", "L", "M",
          "N", "O", "P", "Q", "R", "S", "T", "U", "V", "W", "X", "Y", "Z"}

Digit == {"0", "1", "2", "3", "4", "5", "6", "7", "8", "9"}

isalpha(c) == c \in Lower \cup Upper

isdigit(c) == c \in Digit

isalnum(c) == isalpha(c) \/ isdigit(c)

isspace(c) == c \in {" ", "\t", "\n", "\r", "\f"}

(***************************************************************************)
(* std::optional: the empty sequence is "no value", <<v>> holds v.         *)
(***************************************************************************)
NoValue == <<>>

Some(v) == <<v>>

(***************************************************************************)
(* Tokenizer::peek and Tokenizer::consume, as functions of the cursor.     *)
(***************************************************************************)
peek(i, offset) ==
    IF i + offset >= Len(m_src) THEN NoValue ELSE Some(m_src[i + offset + 1])

has_value(o) == o # NoValue

value(o) == o[1]

\* the cursor after consume() at cursor i
consume(i) == i + 1

(***************************************************************************)
(* The inner loops of tokenize(): each yields the cursor at which it       *)
(* stops.                                                                  *)
(***************************************************************************)
RECURSIVE AlnumLoop(_)
AlnumLoop(i) ==
    IF has_value(peek(i, 0)) /\ isalnum(value(peek(i, 0)))
    THEN AlnumLoop(consume(i))
    ELSE i

\* mutant: the loop of the number branch accepts letters too
RECURSIVE DigitLoopAlnum(_)
DigitLoopAlnum(i) ==
    IF has_value(peek(i, 0)) /\ isalnum(value(peek(i, 0)))
    THEN DigitLoopAlnum(consume(i))
    ELSE i

RECURSIVE DigitLoop(_)
DigitLoop(i) ==
    IF has_value(peek(i, 0)) /\ isdigit(value(peek(i, 0)))
    THEN DigitLoop(consume(i))
    ELSE i

\* mutant: the loop consumes the newline that ends the comment
RECURSIVE LineCommentLoopThroughNewline(_)
LineCommentLoopThroughNewline(i) ==
    IF ~has_value(peek(i, 0))
    THEN i
    ELSE IF value(peek(i, 0)) = "\n"
         THEN consume(i)
         ELSE LineCommentLoopThroughNewline(consume(i))

RECURSIVE LineCommentLoop(_)
LineCommentLoop(i) ==
    IF has_value(peek(i, 0)) /\ value(peek(i, 0)) # "\n"
    THEN LineCommentLoop(consume(i))
    ELSE i

\* mutant: the loop stops at a star, whatever follows it
RECURSIVE BlockCommentLoopStarOnly(_)
BlockCommentLoopStarOnly(i) ==
    IF ~has_value(peek(i, 0))
    THEN i
    ELSE IF value(peek(i, 0)) = "*"
         THEN i
         ELSE BlockCommentLoopStarOnly(consume(i))

RECURSIVE BlockCommentLoop(_)
BlockCommentLoop(i) ==
    IF ~has_value(peek(i, 0))
    THEN i
    ELSE IF value(peek(i, 0)) = "*" /\ has_value(peek(i, 1)) /\ value(peek(i, 1)) = "/"
         THEN i
         ELSE BlockCommentLoop(consume(i))

\* mutant: one guarded consume follows the block comment loop
BlockCommentCloseOne(i) ==
    IF has_value(peek(i, 0)) THEN consume(i) ELSE i

\* mutant: the two consumes that follow the block comment loop are not guarded
BlockCommentCloseUnguarded(i) == consume(consume(i))

\* the two guarded consumes that follow the block comment loop
BlockCommentClose(i) ==
    LET j == IF has_value(peek(i, 0)) THEN consume(i) ELSE i
    IN  IF has_value(peek(j, 0)) THEN consume(j) ELSE j

\* the characters consumed into buf between cursor i and cursor j
Buf(i, j) == SubSeq(m_src, i + 1, j)

(***************************************************************************)
(* Tokens.                                                                 *)
(***************************************************************************)
Token(type, line, val) == [type |-> type, line |-> line, value |-> val]

IsPrefix(p, q) == Len(p) <= Len(q) /\ SubSeq(q, 1, Len(p)) = p

\* mutant: a keyword is matched as a prefix of buf
WordTokenPrefix(buf, line) ==
    IF IsPrefix(<<"e", "x", "i", "t">>, buf) THEN Token("exit", line, NoValue)
    ELSE IF IsPrefix(<<"l", "e", "t">>, buf) THEN Token("let", line, NoValue)
    ELSE IF IsPrefix(<<"i", "f">>, buf) THEN Token("if_", line, NoValue)
    ELSE IF IsPrefix(<<"e", "l", "i", "f">>, buf) THEN Token("elif", line, NoValue)
    ELSE IF IsPrefix(<<"e", "l", "s", "e">>, buf) THEN Token("else_", line, NoValue)
    ELSE IF IsPrefix(<<"f", "o", "r">>, buf) THEN Token("for_", line, NoValue)
    ELSE Token("ident", line, Some(buf))

\* the if / else-if chain over buf
\* mutant: the chain of keyword comparisons lacks its last one
WordTokenNoFor(buf, line) ==
    IF buf = <<"e", "x", "i", "t">> THEN Token("exit", line, NoValue)
    ELSE IF buf = <<"l", "e", "t">> THEN Token("let", line, NoValue)
    ELSE IF buf = <<"i", "f">> THEN Token("if_", line, NoValue)
    ELSE IF buf = <<"e", "l", "i", "f">> THEN Token("elif", line, NoValue)
    ELSE IF buf = <<"e", "l", "s", "e">> THEN Token("else_", line, NoValue)
    ELSE Token("ident", line, Some(buf))

WordToken(buf, line) ==
    IF buf = <<"e", "x", "i", "t">> THEN Token("exit", line, NoValue)
    ELSE IF buf = <<"l", "e", "t">> THEN Token("let", line, NoValue)
    ELSE IF buf = <<"i", "f">> THEN Token("if_", line, NoValue)
    ELSE IF buf = <<"e", "l", "i", "f">> THEN Token("elif", line, NoValue)
    ELSE IF buf = <<"e", "l", "s", "e">> THEN Token("else_", line, NoValue)
    ELSE IF buf = <<"f", "o", "r">> THEN Token("for_", line, NoValue)
    ELSE Token("ident", line, Some(buf))

PunctChars == {"(", ")", ";", "=", "+", "*", "-", "/", "{", "}", ":"}

PunctType(c) ==
    CASE c = "(" -> "open_paren"
      [] c = ")" -> "close_paren"
      [] c = ";" -> "semi"
      [] c = "=" -> "eq"
      [] c = "+" -> "plus"
      [] c = "*" -> "star"
      [] c = "-" -> "minus"
      [] c = "/" -> "fslash"
      [] c = "{" -> "open_curly"
      [] c = "}" -> "close_curly"
      [] c = ":" -> "colon"

\* enum class TokenType
TokenTypes ==
    { "exit", "int_lit", "semi", "open_paren", "close_paren", "ident", "let", "eq",
      "plus", "star", "minus", "fslash", "open_curly", "close_curly", "if_", "elif",
      "else_", "colon", "for_" }

\* mutant: the two precedence levels are exchanged
bin_prec_swapped(type) ==
    CASE type \in {"minus", "plus"} -> Some(1)
      [] type \in {"fslash", "star"} -> Some(0)
      [] OTHER -> NoValue

\* bin_prec(type): the switch over the token kind
bin_prec(type) ==
    CASE type \in {"minus", "plus"} -> Some(0)
      [] type \in {"fslash", "star"} -> Some(1)
      [] OTHER -> NoValue

(***************************************************************************)
(* The branch conditions of the main loop, in the order of the chain.      *)
(***************************************************************************)
AtLineComment(i) ==
    /\ value(peek(i, 0)) = "/"
    /\ has_value(peek(i, 1))
    /\ value(peek(i, 1)) = "/"

AtBlockComment(i) ==
    /\ value(peek(i, 0)) = "/"
    /\ has_value(peek(i, 1))
    /\ value(peek(i, 1)) = "*"

InLoop == pc = "scan" /\ has_value(peek(m_index, 0))

(***************************************************************************)
(* The source texts: concatenations of lexeme-sized chunks.                *)
(***************************************************************************)
CoreChunks ==
    { <<"i", "f">>, <<"e", "x", "i", "t">>, <<"x">>, <<"1">>,
      <<"/">>, <<"*">>, <<"/", "*">>, <<"*", "/">>,
      <<"\n">>, <<" ">>, <<";">>, <<"@">> }

RareChunks ==
    { <<"l", "e", "t">>, <<"e", "l", "i", "f">>, <<"e", "l", "s", "e">>, <<"f", "o", "r">>,
      <<"i", "f", "f", "y">>, <<"I", "f">>, <<"0">>, <<"\t">>, <<"#">>,
      <<"(">>, <<")">>, <<"=">>, <<"+">>, <<"-">>, <<"{">>, <<"}">>, <<":">>,
      <<"/", "*", "\n", "*", "/">>, <<"/", "*", " ", "/", "*", " ", "*", "/">>,
      <<"/", "/", "@", "\n">>, <<"/", "*", "@", "\n", "\n">>,
      <<"i", "f", " ", "i", "f", "1">>, <<" ", "\n", "\t">> }

\* the inputs the specification names
Examples ==
    { <<"l", "e", "t", " ", "x", " ", "=", " ", "5", " ", ";">>,
      <<"/", "/", " ", "c", "o", "m", "m", "e", "n", "t", "\n", "e", "x", "i", "t">>,
      <<"/", "*", " ", "a", "\n", "b", " ", "*", "/", " ", "e", "x", "i", "t">>,
      <<"i", "f", "f", "y">>,
      <<"1", "2", "a", "b">>,
      <<"/", "*", " ", "/", "*", " ", "*", "/", " ", "x">> }

RECURSIVE Flatten(_)
Flatten(cs) == IF cs = <<>> THEN <<>> ELSE Head(cs) \o Flatten(Tail(cs))

Sources ==
    { Flatten(cs) : cs \in UNION { [1..n -> CoreChunks] : n \in 0..MaxChunks } }
    \cup { a \o r \o b : a \in CoreChunks \cup {<<>>}, r \in RareChunks,
                         b \in CoreChunks \cup {<<>>} }
    \cup Examples

(***************************************************************************)
(* Tokenizer: construction and the operations.                             *)
(***************************************************************************)
TokenizerInit ==
    /\ m_src \in Sources
    /\ m_index = 0
    /\ tokens = <<>>
    /\ line_count = 1
    /\ pc = "idle"
    /\ returned = <<>>
    /\ starts = <<>>

\* tokenize() is called: the locals are initialised
Call ==
    /\ pc = "idle"
    /\ Len(returned) < MaxCalls
    /\ tokens' = <<>>
    /\ starts' = <<>>
    /\ line_count' = 1
    /\ pc' = "scan"
    /\ UNCHANGED <<m_src, m_index, returned>>

Emit(tok, next) ==
    /\ tokens' = Append(tokens, tok)
    /\ starts' = Append(starts, m_index)
    /\ m_index' = next
    /\ UNCHANGED <<m_src, line_count, pc, returned>>

Skip(next) ==
    /\ m_index' = next
    /\ UNCHANGED <<m_src, tokens, starts, line_count, pc, returned>>

ScanWord ==
    /\ InLoop
    /\ isalpha(value(peek(m_index, 0)))
    /\ LET end == AlnumLoop(consume(m_index))
       IN  Emit(WordToken(Buf(m_index, end), line_count), end)

ScanNumber ==
    /\ InLoop
    /\ ~isalpha(value(peek(m_index, 0)))
    /\ isdigit(value(peek(m_index, 0)))
    /\ LET end == DigitLoop(consume(m_index))
       IN  Emit(Token("int_lit", line_count, Some(Buf(m_index, end))), end)

LineComment ==
    /\ InLoop
    /\ ~isalnum(value(peek(m_index, 0)))
    /\ AtLineComment(m_index)
    /\ Skip(LineCommentLoop(consume(consume(m_index))))

\* mutant: the search for the closing */ starts at the star of the opener
BlockCommentOverlap ==
    /\ InLoop
    /\ ~isalnum(value(peek(m_index, 0)))
    /\ ~AtLineComment(m_index)
    /\ AtBlockComment(m_index)
    /\ Skip(BlockCommentClose(BlockCommentLoop(consume(m_index))))

BlockComment ==
    /\ InLoop
    /\ ~isalnum(value(peek(m_index, 0)))
    /\ ~AtLineComment(m_index)
    /\ AtBlockComment(m_index)
    /\ Skip(BlockCommentClose(BlockCommentLoop(consume(consume(m_index)))))

Punct ==
    /\ InLoop
    /\ ~isalnum(value(peek(m_index, 0)))
    /\ ~AtLineComment(m_index)
    /\ ~AtBlockComment(m_index)
    /\ value(peek(m_index, 0)) \in PunctChars
    /\ Emit(Token(PunctType(value(peek(m_index, 0))), line_count, NoValue),
            consume(m_index))

\* mutant: the newline is consumed and the line is not counted
NewlineNoCount ==
    /\ InLoop
    /\ value(peek(m_index, 0)) = "\n"
    /\ Skip(consume(m_index))

Newline ==
    /\ InLoop
    /\ value(peek(m_index, 0)) = "\n"
    /\ m_index' = consume(m_index)
    /\ line_count' = line_count + 1
    /\ UNCHANGED <<m_src, tokens, starts, pc, returned>>

Space ==
    /\ InLoop
    /\ value(peek(m_index, 0)) # "\n"
    /\ isspace(value(peek(m_index, 0)))
    /\ Skip(consume(m_index))

\* mutant: the unrecognized character is skipped and the scan goes on
InvalidSkip ==
    /\ InLoop
    /\ ~isalnum(value(peek(m_index, 0)))
    /\ value(peek(m_index, 0)) \notin PunctChars
    /\ ~isspace(value(peek(m_index, 0)))
    /\ Skip(consume(m_index))

\* the final else: "Invalid token" and exit(EXIT_FAILURE)
Invalid ==
    /\ InLoop
    /\ ~isalnum(value(peek(m_index, 0)))
    /\ value(peek(m_index, 0)) \notin PunctChars
    /\ ~isspace(value(peek(m_index, 0)))
    /\ pc' = "exited"
    /\ UNCHANGED <<m_src, m_index, tokens, starts, line_count, returned>>

\* mutant: the cursor is not reset before the return
ReturnNoReset ==
    /\ pc = "scan"
    /\ ~has_value(peek(m_index, 0))
    /\ returned' = Append(returned, tokens)
    /\ pc' = "idle"
    /\ UNCHANGED <<m_src, m_index, tokens, starts, line_count>>

\* the loop ends: m_index = 0; return tokens
Return ==
    /\ pc = "scan"
    /\ ~has_value(peek(m_index, 0))
    /\ m_index' = 0
    /\ returned' = Append(returned, tokens)
    /\ pc' = "idle"
    /\ UNCHANGED <<m_src, tokens, starts, line_count>>

(***************************************************************************)
(* ArenaAllocator.  Addresses are natural numbers and Null is nullptr.     *)
(***************************************************************************)
Null == 0

\* the alignment of the blocks new std::byte[n] returns
NewAlign == 16

(***************************************************************************)
(* Bounds of the arena model.                                              *)
(***************************************************************************)
MaxArenas == 2
MaxAllocs == 2

Slots == 1..MaxArenas

\* the addresses at which the heap places a block: one per arena object, 48 bytes apart
Base(k) == NewAlign * (3 * k - 2)

\* max_num_bytes of the constructor calls
Capacities == {0, 20, 48}

\* the T of alloc<T> and emplace<T>: sizeof(T) and alignof(T)
Types ==
    { [name |-> "char", size |-> 1, align |-> 1],
      [name |-> "node", size |-> 16, align |-> 8],
      [name |-> "wide", size |-> 32, align |-> 32] }

\* the two arena objects, the capacities and the types of the ownership specification
Pair == {1, 2}

OwnedCapacities == {0, 20}

OwnedTypes == { T \in Types : T.name \in {"char", "node"} }

NoType == [name |-> "none", size |-> 0, align |-> 1]

\* the constructor arguments of emplace<T>(args)
Args == {1, 2}

Arena(size, buffer, offset) ==
    [live |-> TRUE, m_size |-> size, m_buffer |-> buffer, m_offset |-> offset]

\* a slot that holds no object
Dead == [live |-> FALSE, m_size |-> 0, m_buffer |-> Null, m_offset |-> Null]

\* the value new (p) T { args... } constructs; storage that alloc<T> hands out holds none
Constructed(T, args) == <<T.name, args>>

Uninitialized == <<>>

\* the description of an operation: what it was applied to and what it returned
Ret(op, this, other, T, args, ok, addr) ==
    [op |-> op, this |-> this, other |-> other, type |-> T, args |-> args,
     ok |-> ok, addr |-> addr,
     pre_this |-> arenas[this], pre_other |-> arenas[other],
     pre_allocs |-> Len(allocs), pre_heap |-> heap]

\* the bytes a block occupies: a block of size 0 still has an address of its own
Extent(n) == IF n = 0 THEN 1 ELSE n

FreeAt(base, n) ==
    \A b \in heap : base + Extent(n) <= b.base \/ b.base + Extent(b.size) <= base

\* mutant: the padding is left out of the test for room
AlignSizeOnly(alignment, size, ptr, space) ==
    IF space < size
    THEN Null
    ELSE ((ptr - 1 + alignment) \div alignment) * alignment

\* std::align(alignment, size, ptr, space): the aligned address, or Null
Align(alignment, size, ptr, space) ==
    IF space < size
    THEN Null
    ELSE LET aligned == ((ptr - 1 + alignment) \div alignment) * alignment
             diff == aligned - ptr
         IN  IF diff > space - size THEN Null ELSE aligned

\* mutant: m_offset is set to the aligned address, without sizeof(T)
AllocBodyNoAdvance(a, T) ==
    LET remaining_num_bytes == a.m_size - (a.m_offset - a.m_buffer)
        aligned_address == Align(T.align, T.size, a.m_offset, remaining_num_bytes)
    IN  IF aligned_address = Null
        THEN [addr |-> Null, m_offset |-> a.m_offset]
        ELSE [addr |-> aligned_address, m_offset |-> aligned_address]

\* mutant: m_offset advances by sizeof(T) from where it was, the padding forgotten
AllocBodyFromCursor(a, T) ==
    LET remaining_num_bytes == a.m_size - (a.m_offset - a.m_buffer)
        aligned_address == Align(T.align, T.size, a.m_offset, remaining_num_bytes)
    IN  IF aligned_address = Null
        THEN [addr |-> Null, m_offset |-> a.m_offset]
        ELSE [addr |-> aligned_address, m_offset |-> a.m_offset + T.size]

\* mutant: m_offset is advanced before the result of std::align is tested
AllocBodyFailMoves(a, T) ==
    LET remaining_num_bytes == a.m_size - (a.m_offset - a.m_buffer)
        aligned_address == Align(T.align, T.size, a.m_offset, remaining_num_bytes)
    IN  IF aligned_address = Null
        THEN [addr |-> Null, m_offset |-> a.m_offset + T.size]
        ELSE [addr |-> aligned_address, m_offset |-> aligned_address + T.size]

\* the body of alloc<T> on arena object a: the address returned (Null: std::bad_alloc
\* is thrown) and the m_offset it leaves
AllocBody(a, T) ==
    LET remaining_num_bytes == a.m_size - (a.m_offset - a.m_buffer)
        aligned_address == Align(T.align, T.size, a.m_offset, remaining_num_bytes)
    IN  IF aligned_address = Null
        THEN [addr |-> Null, m_offset |-> a.m_offset]
        ELSE [addr |-> aligned_address, m_offset |-> aligned_address + T.size]

\* the bound of the model: at most MaxAllocs regions are handed out of the live
\* blocks; a request that fails is not bounded
WithinBound(a, T) == Len(allocs) < MaxAllocs \/ AllocBody(a, T).addr = Null

ArenaInit ==
    /\ arenas = [s \in Slots |-> Dead]
    /\ heap = {}
    /\ allocs = <<>>
    /\ double_free = FALSE
    /\ ret = [op |-> "none", this |-> 1, other |-> 1, type |-> NoType, args |-> 0,
              ok |-> TRUE, addr |-> Null,
              pre_this |-> Dead, pre_other |-> Dead, pre_allocs |-> 0, pre_heap |-> {}]

\* ArenaAllocator(max_num_bytes), the heap placing the new block at base
Construct(s, max_num_bytes, base) ==
    /\ ~arenas[s].live
    /\ FreeAt(base, max_num_bytes)
    /\ heap' = heap \cup {[base |-> base, size |-> max_num_bytes]}
    /\ arenas' = [arenas EXCEPT ![s] = Arena(max_num_bytes, base, base)]
    /\ ret' = Ret("construct", s, s, NoType, 0, TRUE, base)
    /\ UNCHANGED <<allocs, double_free>>

\* mutant: the members are copied and other keeps them
MoveConstructCopy(s, other) ==
    /\ ~arenas[s].live
    /\ arenas[other].live
    /\ arenas' = [arenas EXCEPT
                    ![s] = Arena(arenas[other].m_size, arenas[other].m_buffer,
                                 arenas[other].m_offset)]
    /\ ret' = Ret("move_construct", s, other, NoType, 0, TRUE, Null)
    /\ UNCHANGED <<heap, allocs, double_free>>

\* ArenaAllocator(ArenaAllocator&& other): three std::exchange
MoveConstruct(s, other) ==
    /\ ~arenas[s].live
    /\ arenas[other].live
    /\ arenas' = [arenas EXCEPT
                    ![s] = Arena(arenas[other].m_size, arenas[other].m_buffer,
                                 arenas[other].m_offset),
                    ![other] = Arena(0, Null, Null)]
    /\ ret' = Ret("move_construct", s, other, NoType, 0, TRUE, Null)
    /\ UNCHANGED <<heap, allocs, double_free>>

\* mutant: the members of other are assigned, not swapped
MoveAssignCopy(s, other) ==
    /\ arenas[s].live
    /\ arenas[other].live
    /\ arenas' = [arenas EXCEPT ![s] = arenas[other]]
    /\ ret' = Ret("move_assign", s, other, NoType, 0, TRUE, Null)
    /\ UNCHANGED <<heap, allocs, double_free>>

\* operator=(ArenaAllocator&& other): three std::swap
MoveAssign(s, other) ==
    /\ arenas[s].live
    /\ arenas[other].live
    /\ arenas' = [t \in Slots |->
                    IF t = s THEN arenas[other]
                    ELSE IF t = other THEN arenas[s]
                    ELSE arenas[t]]
    /\ ret' = Ret("move_assign", s, other, NoType, 0, TRUE, Null)
    /\ UNCHANGED <<heap, allocs, double_free>>

\* alloc<T>()
Alloc(s, T) ==
    /\ arenas[s].live
    /\ WithinBound(arenas[s], T)
    /\ LET r == AllocBody(arenas[s], T)
       IN  /\ arenas' = [arenas EXCEPT ![s].m_offset = r.m_offset]
           /\ allocs' = IF r.addr = Null
                        THEN allocs
                        ELSE Append(allocs, [buf |-> arenas[s].m_buffer, addr |-> r.addr,
                                             type |-> T, val |-> Uninitialized])
           /\ ret' = Ret("alloc", s, s, T, 0, r.addr # Null, r.addr)
    /\ UNCHANGED <<heap, double_free>>

\* mutant: the storage is handed out and no T is constructed in it
EmplaceNoConstruct(s, T, args) ==
    /\ arenas[s].live
    /\ WithinBound(arenas[s], T)
    /\ LET r == AllocBody(arenas[s], T)
       IN  /\ arenas' = [arenas EXCEPT ![s].m_offset = r.m_offset]
           /\ allocs' = IF r.addr = Null
                        THEN allocs
                        ELSE Append(allocs, [buf |-> arenas[s].m_buffer, addr |-> r.addr,
                                             type |-> T, val |-> Uninitialized])
           /\ ret' = Ret("emplace", s, s, T, args, r.addr # Null, r.addr)
    /\ UNCHANGED <<heap, double_free>>

\* emplace<T>(args): alloc<T>(), then new (allocated_memory) T { args... }
Emplace(s, T, args) ==
    /\ arenas[s].live
    /\ WithinBound(arenas[s], T)
    /\ LET r == AllocBody(arenas[s], T)
       IN  /\ arenas' = [arenas EXCEPT ![s].m_offset = r.m_offset]
           /\ allocs' = IF r.addr = Null
                        THEN allocs
                        ELSE Append(allocs, [buf |-> arenas[s].m_buffer, addr |-> r.addr,
                                             type |-> T, val |-> Constructed(T, args)])
           /\ ret' = Ret("emplace", s, s, T, args, r.addr # Null, r.addr)
    /\ UNCHANGED <<heap, double_free>>

\* ~ArenaAllocator(): delete[] m_buffer
Destroy(s) ==
    /\ arenas[s].live
    /\ LET b == arenas[s].m_buffer
       IN  /\ heap' = { blk \in heap : blk.base # b }
           /\ double_free' = (double_free \/ (b # Null /\ \A blk \in heap : blk.base # b))
           /\ allocs' = SelectSeq(allocs, LAMBDA r : r.buf # b)
    /\ arenas' = [arenas EXCEPT ![s] = Dead]
    /\ ret' = Ret("destroy", s, s, NoType, 0, TRUE, Null)

(***************************************************************************)
(* The specifications.                                                     *)
(***************************************************************************)
\* a tokenizer that is never run, for the arena's specification
TokenizerIdle ==
    /\ m_src = <<>>
    /\ m_index = 0
    /\ tokens = <<>>
    /\ line_count = 1
    /\ pc = "idle"
    /\ returned = <<>>
    /\ starts = <<>>

NextTokenizer ==
    \/ Call /\ UNCHANGED <<arenaVars, precVars>>
    \/ ScanWord /\ UNCHANGED <<arenaVars, precVars>>
    \/ ScanNumber /\ UNCHANGED <<arenaVars, precVars>>
    \/ LineComment /\ UNCHANGED <<arenaVars, precVars>>
    \/ BlockComment /\ UNCHANGED <<arenaVars, precVars>>
    \/ Punct /\ UNCHANGED <<arenaVars, precVars>>
    \/ Newline /\ UNCHANGED <<arenaVars, precVars>>
    \/ Space /\ UNCHANGED <<arenaVars, precVars>>
    \/ Invalid /\ UNCHANGED <<arenaVars, precVars>>
    \/ Return /\ UNCHANGED <<arenaVars, precVars>>

\* allocation: two arena objects, every capacity and type
NextArena ==
    \/ \E s \in Pair, n \in Capacities, k \in Pair :
          Construct(s, n, Base(k)) /\ UNCHANGED <<tokVars, precVars>>
    \/ \E s \in Pair, o \in Pair : MoveConstruct(s, o) /\ UNCHANGED <<tokVars, precVars>>
    \/ \E s \in Pair, o \in Pair : MoveAssign(s, o) /\ UNCHANGED <<tokVars, precVars>>
    \/ \E s \in Pair, T \in Types : Alloc(s, T) /\ UNCHANGED <<tokVars, precVars>>
    \/ \E s \in Pair, T \in Types, a \in Args : Emplace(s, T, a) /\ UNCHANGED <<tokVars, precVars>>
    \/ \E s \in Pair : Destroy(s) /\ UNCHANGED <<tokVars, precVars>>

\* ownership: MaxArenas arena objects, fewer capacities and types
NextOwnership ==
    \/ \E s \in Slots, n \in OwnedCapacities, k \in Slots :
          Construct(s, n, Base(k)) /\ UNCHANGED <<tokVars, precVars>>
    \/ \E s \in Slots, o \in Slots : MoveConstruct(s, o) /\ UNCHANGED <<tokVars, precVars>>
    \/ \E s \in Slots, o \in Slots : MoveAssign(s, o) /\ UNCHANGED <<tokVars, precVars>>
    \/ \E s \in Slots, T \in OwnedTypes : Alloc(s, T) /\ UNCHANGED <<tokVars, precVars>>
    \/ \E s \in Slots : Destroy(s) /\ UNCHANGED <<tokVars, precVars>>

\* a call of bin_prec(type), as an expression parser makes it
BinPrec(type) ==
    /\ Len(queries) < MaxQueries
    /\ queries' = Append(queries, [type |-> type, prec |-> bin_prec(type)])

PrecInit == queries = <<>>

NextPrec ==
    \E type \in TokenTypes : BinPrec(type) /\ UNCHANGED <<tokVars, arenaVars>>

InitTokenizer == TokenizerInit /\ ArenaInit /\ PrecInit

InitArena == TokenizerIdle /\ ArenaInit /\ PrecInit

InitPrec == TokenizerIdle /\ ArenaInit /\ PrecInit

SpecTokenizer == InitTokenizer /\ [][NextTokenizer]_vars

SpecArena == InitArena /\ [][NextArena]_vars

SpecOwnership == InitArena /\ [][NextOwnership]_vars

SpecPrec == InitPrec /\ [][NextPrec]_vars

\* the steps of a running tokenize(): once called it runs until it returns or exits
Running ==
    (ScanWord \/ ScanNumber \/ LineComment \/ BlockComment \/ Punct \/ Newline \/ Space
        \/ Invalid \/ Return)
    /\ UNCHANGED <<arenaVars, precVars>>

SpecTokenizerLive == SpecTokenizer /\ WF_vars(Running)

(***************************************************************************)
(* Properties of the tokenizer, under SpecTokenizer.                       *)
(***************************************************************************)
\* the number of newline characters among the first i characters of the source
NewlinesBefore(i) == Cardinality({ k \in 1..i : m_src[k] = "\n" })

\* tokenize() has returned and tokens, starts still hold what it returned
Returned == pc = "idle" /\ returned # <<>>

BlockExample ==
    <<"/", "*", " ", "a", "\n", "b", " ", "*", "/", " ", "e", "x", "i", "t">>

\* C1: in a returned token sequence the line of every token is 1 plus the number of
\* newline characters that precede the token in the source, those inside comments
\* included; the input "/* a\nb */ exit" yields a single exit token on line 2.
C1_LineCountsEveryNewline ==
    Returned =>
        /\ \A k \in DOMAIN tokens : tokens[k].line = 1 + NewlinesBefore(starts[k])
        /\ m_src = BlockExample => tokens = <<Token("exit", 2, NoValue)>>

\* the cursor at which the maximal run of alphanumeric characters that starts at
\* cursor i ends
RunEnd(i) ==
    CHOOSE j \in i..Len(m_src) :
        /\ \A k \in (i + 1)..j : isalnum(m_src[k])
        /\ j = Len(m_src) \/ ~isalnum(m_src[j + 1])

KeywordKind(run) ==
    CASE run = <<"e", "x", "i", "t">> -> "exit"
      [] run = <<"l", "e", "t">> -> "let"
      [] run = <<"i", "f">> -> "if_"
      [] run = <<"e", "l", "i", "f">> -> "elif"
      [] run = <<"e", "l", "s", "e">> -> "else_"
      [] run = <<"f", "o", "r">> -> "for_"
      [] OTHER -> "ident"

\* C8: when the scan is at a letter, the step appends exactly one token and moves the
\* cursor to the end of the maximal alphanumeric run: the keyword token without
\* payload when the whole run is a keyword spelling, else an ident token whose
\* payload is the whole run (so a keyword that is only a prefix of the run yields
\* no keyword token).
C8_WordYieldsOneToken ==
    [][ (pc = "scan" /\ m_index < Len(m_src) /\ isalpha(m_src[m_index + 1])) =>
            LET run == SubSeq(m_src, m_index + 1, RunEnd(m_index))
                kind == KeywordKind(run)
            IN  /\ m_index' = RunEnd(m_index)
                /\ tokens' = Append(tokens,
                                    [type |-> kind, line |-> line_count,
                                     value |-> IF kind = "ident" THEN <<run>> ELSE <<>>])
      ]_vars

\* C8 witness: the returned tokens hold a keyword and an identifier that a keyword
\* spelling begins
C8_Witness ==
    /\ Returned
    /\ \E k \in DOMAIN tokens : tokens[k].type = "if_" /\ tokens[k].value = <<>>
    /\ \E k \in DOMAIN tokens :
          /\ tokens[k].type = "ident"
          /\ tokens[k].value = << <<"i", "f", "1">> >>

Recognized(c) ==
    \/ c \in Lower \cup Upper \cup Digit
    \/ c \in {" ", "\t", "\n", "\r", "\f"}
    \/ c \in {"(", ")", ";", "=", "+", "-", "*", "/", "{", "}", ":"}

\* C9: when the scan is at a character that is no letter, digit, whitespace or
\* single-character lexeme, the step terminates the process there, nothing is
\* returned, and nothing happens after the termination.
C9_UnrecognizedIsFatal ==
    [][ /\ (pc = "scan" /\ m_index < Len(m_src) /\ ~Recognized(m_src[m_index + 1])) =>
              (pc' = "exited" /\ returned' = returned /\ m_index' = m_index)
        /\ pc' = "exited" => returned' = <<>>
        /\ pc # "exited"
      ]_vars

\* C9 witness: the process has exited with tokens recognized and nothing returned
C9_Witness ==
    /\ pc = "exited"
    /\ tokens # <<>>
    /\ returned = <<>>
    /\ m_index > 0

\* C10: all the tokenize() calls on one Tokenizer return the same token sequence, and
\* the cursor is 0 whenever no call is running.
C10_TokenizeTwiceSame ==
    /\ \A i, j \in DOMAIN returned : returned[i] = returned[j]
    /\ pc = "idle" => m_index = 0

\* C10 witness: two calls have returned a sequence of several tokens
C10_Witness ==
    /\ Len(returned) >= 2
    /\ Len(returned[1]) >= 2
    /\ pc = "idle"

(***************************************************************************)
(* Properties of the arena, under SpecOwnership and SpecArena.             *)
(***************************************************************************)
Moved == ret.op \in {"move_construct", "move_assign"}

Members(a) == <<a.m_size, a.m_buffer, a.m_offset>>

\* C2 as stated: after a move construction or a move assignment from one arena to
\* another the old owner has a null buffer and zero capacity and the new owner holds
\* the old owner's buffer, capacity and cursor.
C2_MoveLeavesOldOwnerEmpty ==
    (Moved /\ ret.this # ret.other) =>
        /\ arenas[ret.other].m_buffer = Null
        /\ arenas[ret.other].m_size = 0
        /\ Members(arenas[ret.this]) = Members(ret.pre_other)

\* C2 amended: after a move construction the old owner is empty (null buffer, zero
\* capacity, null cursor) and the new owner holds the old owner's buffer, capacity
\* and cursor; after a move assignment the new owner holds the old owner's buffer,
\* capacity and cursor and the old owner holds those the new owner had; destroying
\* an arena releases exactly the block its buffer points to, none when it is null.
C2_MoveTransfersOwnership ==
    /\ ret.op = "move_construct" =>
          /\ Members(arenas[ret.other]) = <<0, Null, Null>>
          /\ Members(arenas[ret.this]) = Members(ret.pre_other)
    /\ ret.op = "move_assign" =>
          /\ Members(arenas[ret.this]) = Members(ret.pre_other)
          /\ Members(arenas[ret.other]) = Members(ret.pre_this)
    /\ ret.op = "destroy" =>
          heap = { blk \in ret.pre_heap : blk.base # ret.pre_this.m_buffer }
    /\ (ret.op = "destroy" /\ ret.pre_this.m_buffer = Null) => heap = ret.pre_heap

\* C2 witness: a move assignment between two arenas that both held a buffer, the old
\* owner's cursor having advanced
C2_Witness ==
    /\ ret.op = "move_assign"
    /\ ret.this # ret.other
    /\ ret.pre_this.m_buffer # Null
    /\ ret.pre_other.m_buffer # Null
    /\ ret.pre_other.m_offset > ret.pre_other.m_buffer

\* C3: no two live arenas reference the same buffer, no block is released twice, and
\* the buffer of every live arena is a block that has not been released.
C3_SingleOwner ==
    /\ \A s, t \in Slots :
          (s # t /\ arenas[s].live /\ arenas[t].live /\ arenas[s].m_buffer # Null)
              => arenas[s].m_buffer # arenas[t].m_buffer
    /\ ~double_free
    /\ \A s \in Slots :
          (arenas[s].live /\ arenas[s].m_buffer # Null)
              => [base |-> arenas[s].m_buffer, size |-> arenas[s].m_size] \in heap

\* C3 witness: a moved-from arena has been destroyed while the arena it was moved to
\* is live and holds the buffer, with a region handed out of it
C3_Witness ==
    /\ ret.op = "destroy"
    /\ ret.pre_this.m_buffer = Null
    /\ \E s \in Slots :
          /\ arenas[s].live
          /\ arenas[s].m_buffer # Null
          /\ \E i \in DOMAIN allocs : allocs[i].buf = arenas[s].m_buffer

\* there is an address a >= cursor, a multiple of alignof(T), with a + sizeof(T) <= limit
Fits(cursor, T, limit) ==
    \E a \in cursor..limit : a % T.align = 0 /\ a + T.size <= limit

Limit(a) == a.m_buffer + a.m_size

\* C4: alloc<T> fails exactly when no address at or after the cursor is a multiple of
\* alignof(T) and leaves sizeof(T) bytes before the end of the buffer.
C4_FailsExactlyOnOverflow ==
    ret.op = "alloc" =>
        (~ret.ok <=> ~Fits(ret.pre_this.m_offset, ret.type, Limit(ret.pre_this)))

\* C4 witness: after two successful allocations an alloc<T> has failed for which
\* sizeof(T) bytes remained: the padding made it overflow
C4_Witness ==
    /\ ret.op = "alloc"
    /\ ~ret.ok
    /\ ret.pre_allocs >= 2
    /\ \A i \in DOMAIN allocs : allocs[i].buf = ret.pre_this.m_buffer
    /\ ret.pre_this.m_offset > ret.pre_this.m_buffer
    /\ Limit(ret.pre_this) - ret.pre_this.m_offset >= ret.type.size

\* C5: every region handed out is aligned for its type and lies inside the block it
\* was taken from, the regions of one block are pairwise disjoint, and a successful
\* alloc<T> returns the region it has just reserved.
C5_AlignedInsideDisjoint ==
    /\ \A i \in DOMAIN allocs :
          /\ allocs[i].addr % allocs[i].type.align = 0
          /\ \E blk \in heap :
                /\ blk.base = allocs[i].buf
                /\ blk.base <= allocs[i].addr
                /\ allocs[i].addr + allocs[i].type.size <= blk.base + blk.size
    /\ \A i, j \in DOMAIN allocs :
          (i < j /\ allocs[i].buf = allocs[j].buf) =>
              \/ allocs[i].addr + allocs[i].type.size <= allocs[j].addr
              \/ allocs[j].addr + allocs[j].type.size <= allocs[i].addr
    /\ (ret.op \in {"alloc", "emplace"} /\ ret.ok) =>
          /\ Len(allocs) = ret.pre_allocs + 1
          /\ allocs[Len(allocs)].addr = ret.addr
          /\ allocs[Len(allocs)].buf = ret.pre_this.m_buffer

\* C5 witness: two regions of one block with padding between them
C5_Witness ==
    /\ Len(allocs) >= 2
    /\ allocs[1].buf = allocs[2].buf
    /\ allocs[2].addr > allocs[1].addr + allocs[1].type.size

\* C6: the cursor of every live arena lies between the start and the end of its
\* buffer; an alloc or emplace call does not decrease the cursor, and a successful
\* one sets it to the returned address plus sizeof(T).
C6_CursorInBoundsMonotone ==
    /\ \A s \in Slots :
          arenas[s].live =>
              /\ arenas[s].m_buffer <= arenas[s].m_offset
              /\ arenas[s].m_offset <= arenas[s].m_buffer + arenas[s].m_size
    /\ ret.op \in {"alloc", "emplace"} =>
          /\ arenas[ret.this].m_offset >= ret.pre_this.m_offset
          /\ ret.ok => arenas[ret.this].m_offset = ret.addr + ret.type.size

\* C6 witness: a successful emplace whose returned address lies after the old cursor
C6_Witness ==
    /\ ret.op = "emplace"
    /\ ret.ok
    /\ ret.addr > ret.pre_this.m_offset
    /\ ret.pre_this.m_offset > ret.pre_this.m_buffer

\* C7: emplace<T>(args) succeeds, fails, returns the address and leaves the cursor as
\* alloc<T> does from the same state; on success the value at the returned address is
\* the T constructed from args, on failure no region is added and no value constructed.
C7_EmplaceIsAllocThenConstruct ==
    ret.op = "emplace" =>
        LET r == AllocBody(ret.pre_this, ret.type)
        IN  /\ ret.ok <=> r.addr # Null
            /\ ret.ok <=> Fits(ret.pre_this.m_offset, ret.type, Limit(ret.pre_this))
            /\ ret.addr = r.addr
            /\ arenas[ret.this].m_offset = r.m_offset
            /\ ret.ok =>
                  /\ Len(allocs) = ret.pre_allocs + 1
                  /\ allocs[Len(allocs)].addr = ret.addr
                  /\ allocs[Len(allocs)].type = ret.type
                  /\ allocs[Len(allocs)].val = <<ret.type.name, ret.args>>
            /\ ~ret.ok =>
                  /\ Len(allocs) = ret.pre_allocs
                  /\ Members(arenas[ret.this]) = Members(ret.pre_this)

\* C7 witness: an emplace has constructed a value after padding, following another
\* emplace in the same block with other arguments
C7_Witness ==
    /\ ret.op = "emplace"
    /\ ret.ok
    /\ ret.addr > ret.pre_this.m_offset
    /\ Len(allocs) >= 2
    /\ allocs[1].val # <<>>
    /\ allocs[1].val[2] # ret.args

(***************************************************************************)
(* Properties of bin_prec, under SpecPrec.                                 *)
(***************************************************************************)
\* C15: bin_prec is a pure function of the token kind: every call with plus or minus
\* returns 0, every call with star or fslash returns 1, every call with any other kind of
\* the closed set returns no value, and two calls with the same kind return the same.
C15_BinPrecTable ==
    /\ \A k \in DOMAIN queries :
          LET q == queries[k] IN
          /\ q.type \in TokenTypes
          /\ q.type \in {"plus", "minus"} => q.prec = Some(0)
          /\ q.type \in {"star", "fslash"} => q.prec = Some(1)
          /\ q.type \notin {"plus", "minus", "star", "fslash"} => ~has_value(q.prec)
    /\ \A j, k \in DOMAIN queries :
          queries[j].type = queries[k].type => queries[j].prec = queries[k].prec

\* bin_prec was called with an operator of each level, or with an operator and then a
\* kind that is no binary operator
C15_Witness ==
    /\ Len(queries) = MaxQueries
    /\ queries[1].type \in {"star", "fslash"}
    /\ queries[Len(queries)].type \in {"plus", "minus", "eq", "for_"}

(***************************************************************************)
(* Properties of comments, payloads and line numbers, under SpecTokenizer. *)
(***************************************************************************)
\* the scan is at the two characters / and * with the cursor at i
OpensBlock(i) ==
    /\ i + 2 <= Len(m_src)
    /\ m_src[i + 1] = "/"
    /\ m_src[i + 2] = "*"

\* the cursors at which a closing */ of the block comment opened at cursor i starts
Closers(i) ==
    { k \in (i + 2)..(Len(m_src) - 2) : m_src[k + 1] = "*" /\ m_src[k + 2] = "/" }

\* C11: when the scan is at a /* that no */ closes before the end of the input (an input
\* ending in a lone * included), the step reaches the end of the input without an error and
\* emits no token; the step at the end of the input returns the tokens recognized so far.
C11_UnterminatedBlockComment ==
    [][ /\ (pc = "scan" /\ OpensBlock(m_index) /\ Closers(m_index) = {})
           => /\ m_index' = Len(m_src)
              /\ tokens' = tokens
              /\ pc' = "scan"
              /\ returned' = returned
        /\ (pc = "scan" /\ m_index = Len(m_src))
           => /\ pc' = "idle"
              /\ returned' = Append(returned, tokens) ]_vars

\* a call returned the tokens before an unterminated block comment that ends in a lone *
C11_Witness ==
    /\ Returned
    /\ tokens # <<>>
    /\ returned[Len(returned)] = tokens
    /\ \E i \in 1..(Len(m_src) - 3) :
          /\ OpensBlock(i)
          /\ Closers(i) = {}
          /\ \A p \in 1..i : m_src[p] # "/"
          /\ m_src[Len(m_src)] = "*"

\* the scan is at the two characters / and / with the cursor at i
OpensLine(i) ==
    /\ i + 2 <= Len(m_src)
    /\ m_src[i + 1] = "/"
    /\ m_src[i + 2] = "/"

\* the cursor of the first newline at or after cursor i, the end of the input if none
LineEnd(i) ==
    LET nl == { k \in i..(Len(m_src) - 1) : m_src[k + 1] = "\n" }
    IN  IF nl = {} THEN Len(m_src) ELSE CHOOSE k \in nl : \A j \in nl : k <= j

LineExample ==
    <<"/", "/", " ", "c", "o", "m", "m", "e", "n", "t", "\n", "e", "x", "i", "t">>

\* C12: when the scan is at //, the step discards every character up to, not including, the
\* next newline (or up to the end of the input) and emits no token, whatever the characters
\* are; the newline is then scanned as any newline, counting a line; and
\* "// comment\nexit" yields the single token exit on line 2.
C12_LineCommentStopsBeforeNewline ==
    [][ /\ (pc = "scan" /\ OpensLine(m_index))
           => /\ m_index' = LineEnd(m_index + 2)
              /\ tokens' = tokens
              /\ line_count' = line_count
              /\ pc' = "scan"
        /\ (pc = "scan" /\ m_index < Len(m_src) /\ m_src[m_index + 1] = "\n")
           => /\ m_index' = m_index + 1
              /\ tokens' = tokens
              /\ line_count' = line_count + 1
              /\ pc' = "scan"
        /\ (pc' = "idle" /\ returned' # <<>> /\ m_src' = LineExample)
           => tokens' = <<Token("exit", 2, NoValue)>> ]_vars

\* a call returned one token, on line 2, after a line comment holding an unrecognized
\* character
C12_Witness ==
    /\ Returned
    /\ Len(m_src) >= 5
    /\ SubSeq(m_src, 1, 4) = <<"/", "/", "@", "\n">>
    /\ Len(tokens) = 1
    /\ tokens[1].line = 2
    /\ starts[1] = 4

\* C13: in every returned token sequence a token carries a payload exactly when its kind is
\* ident or int_lit; an ident payload is a non-empty alphanumeric string that starts with a
\* letter and is not a keyword spelling; an int_lit payload is a non-empty digit string.
C13_PayloadIffIdentOrIntLit ==
    \A c \in DOMAIN returned : \A k \in DOMAIN returned[c] :
        LET tok == returned[c][k] IN
        /\ tok.type \in TokenTypes
        /\ has_value(tok.value) <=> tok.type \in {"ident", "int_lit"}
        /\ tok.type = "ident"
           => /\ value(tok.value) # <<>>
              /\ \A p \in DOMAIN value(tok.value) : isalnum(value(tok.value)[p])
              /\ isalpha(value(tok.value)[1])
              /\ KeywordKind(value(tok.value)) = "ident"
        /\ tok.type = "int_lit"
           => /\ value(tok.value) # <<>>
              /\ \A p \in DOMAIN value(tok.value) : isdigit(value(tok.value)[p])

\* a call returned a keyword, an identifier, a punctuation token and an integer literal
C13_Witness ==
    /\ Returned
    /\ returned[Len(returned)] = tokens
    /\ \E i, j, k, l \in DOMAIN tokens :
          /\ tokens[i].type = "let" /\ tokens[i].value = NoValue
          /\ tokens[j].type = "ident" /\ tokens[j].value = Some(<<"x">>)
          /\ tokens[k].type = "eq" /\ tokens[k].value = NoValue
          /\ tokens[l].type = "int_lit" /\ tokens[l].value = Some(<<"5">>)

\* the number of characters of the source that a token was made of
Spelled(tok) ==
    IF has_value(tok.value) THEN Len(value(tok.value))
    ELSE CASE tok.type \in {"exit", "elif", "else_"} -> 4
           [] tok.type \in {"let", "for_"} -> 3
           [] tok.type = "if_" -> 2
           [] OTHER -> 1

\* the positions of m_src between the end of tokens[k] and the start of tokens[k + 1]
Between(k) == (starts[k] + Spelled(tokens[k]) + 1)..starts[k + 1]

\* C14: for two consecutive tokens separated only by whitespace, the line of the second is
\* the line of the first plus 1 when the whitespace holds exactly one newline, and the two
\* lines are equal when it holds no newline.
C14_LineAcrossWhitespace ==
    \A k \in 1..(Len(tokens) - 1) :
        LET nl == { p \in Between(k) : m_src[p] = "\n" } IN
        (\A p \in Between(k) : isspace(m_src[p]))
        => /\ Cardinality(nl) = 1 => tokens[k + 1].line = tokens[k].line + 1
           /\ nl = {} => tokens[k + 1].line = tokens[k].line

\* a call returned two tokens, on lines 1 and 2, separated by a space, one newline and a tab
C14_Witness ==
    /\ Returned
    /\ \E k \in 1..(Len(tokens) - 1) :
          /\ Cardinality(Between(k)) = 3
          /\ \A p \in Between(k) : isspace(m_src[p])
          /\ Cardinality({ p \in Between(k) : m_src[p] = "\n" }) = 1
          /\ tokens[k + 1].line = 2
          /\ tokens[k].line = 1

\* the source from cursor i on is made only of whitespace, newlines and comments, the last
\* of which may be unterminated
RECURSIVE OnlyBlank(_)
OnlyBlank(i) ==
    IF i >= Len(m_src) THEN TRUE
    ELSE IF isspace(m_src[i + 1]) THEN OnlyBlank(i + 1)
    ELSE IF OpensLine(i) THEN OnlyBlank(LineEnd(i + 2))
    ELSE IF OpensBlock(i)
         THEN \/ Closers(i) = {}
              \/ OnlyBlank((CHOOSE k \in Closers(i) : \A j \in Closers(i) : k <= j) + 2)
    ELSE FALSE

\* C16: on the empty input, and on any input made only of whitespace, newlines and complete
\* or unterminated comments, tokenize() does not exit with an error and every token sequence
\* it builds and returns is empty.
C16_BlankInputNoTokens ==
    OnlyBlank(0)
    => /\ pc # "exited"
       /\ tokens = <<>>
       /\ \A c \in DOMAIN returned : returned[c] = <<>>

\* a call returned the empty sequence for whitespace, a complete block comment and more
C16_Witness ==
    /\ Returned
    /\ OnlyBlank(0)
    /\ returned[Len(returned)] = <<>>
    /\ Len(m_src) > 6
    /\ isspace(m_src[1])
    /\ OpensBlock(1)
    /\ Closers(1) # {}

(***************************************************************************)
(* Failed requests of the arena, under SpecArena.                          *)
(***************************************************************************)
\* the first multiple of alignof(T) at or after the cursor
FirstAligned(cursor, T) ==
    CHOOSE a \in cursor..(cursor + T.align - 1) : a % T.align = 0

Request(r) == r.op \in {"alloc", "emplace"}

\* C17: an alloc or emplace that fails leaves the buffer, the capacity and the cursor of the
\* arena (and every arena, block and earlier allocation) unchanged; and the next request on
\* that arena for a type that fits succeeds, at the first aligned address from the cursor
\* that the failed request found.
C17_FailedRequestChangesNothing ==
    [][ /\ (Request(ret') /\ ~ret'.ok)
           => /\ Members(arenas'[ret'.this]) = Members(arenas[ret'.this])
              /\ arenas' = arenas
              /\ allocs' = allocs
              /\ heap' = heap
              /\ double_free' = double_free
        /\ ( /\ Request(ret) /\ ~ret.ok
             /\ Request(ret') /\ ret'.this = ret.this
             /\ Fits(ret.pre_this.m_offset, ret'.type, Limit(ret.pre_this)) )
           => /\ ret'.ok
              /\ ret'.addr = FirstAligned(ret.pre_this.m_offset, ret'.type)
              /\ arenas'[ret'.this].m_buffer = ret.pre_this.m_buffer
              /\ arenas'[ret'.this].m_size = ret.pre_this.m_size ]_vars

\* a request failed on an arena that holds an earlier allocation and on which a smaller
\* type still fits
C17_Witness ==
    /\ Request(ret)
    /\ ~ret.ok
    /\ Len(allocs) < MaxAllocs
    /\ \E i \in DOMAIN allocs : allocs[i].buf = arenas[ret.this].m_buffer
    /\ \E T \in Types :
          /\ T.size < ret.type.size
          /\ Fits(arenas[ret.this].m_offset, T, Limit(arenas[ret.this]))

(***************************************************************************)
(* Termination of tokenize(), under SpecTokenizerLive.                     *)
(***************************************************************************)
\* C18: tokenize() terminates: the cursor never exceeds the length of the source (each
\* consume() adds 1 to the cursor, so this says that consume() is never called when no
\* character remains, the two closing consumes of a block comment included); each iteration
\* of the main loop moves the cursor forward by at least one character or ends the scan by
\* exit or by return; and a call that has started ends.
C18_TokenizeTerminates ==
    /\ [](m_index <= Len(m_src))
    /\ [][pc = "scan" => (m_index' >= m_index + 1 \/ pc' # "scan")]_vars
    /\ (pc = "scan" ~> pc # "scan")

\* a call returned after a block comment whose closing */ ends the input: the two closing
\* consumes took the last two characters
C18_Witness ==
    /\ Returned
    /\ m_index = 0
    /\ OpensBlock(0)
    /\ Closers(0) = {Len(m_src) - 2}

(***************************************************************************)
(* Slashes and digit runs, under SpecTokenizer.                            *)
(***************************************************************************)
NestedExample == <<"/", "*", " ", "/", "*", " ", "*", "/", " ", "x">>

\* C19: when the scan is at a /, the step emits fslash exactly when the next character is
\* neither / nor * (or there is none); at /* the step emits nothing and ends just after the
\* first */ that starts after the two characters of the opener, at the end of the input if
\* there is none; so "/*/" is a comment that is not closed, and "/* /* */ x" yields x.
C19_SlashAndBlockCommentEnd ==
    [][ /\ (pc = "scan" /\ m_index < Len(m_src) /\ m_src[m_index + 1] = "/")
           => /\ (m_index + 1 = Len(m_src) \/ m_src[m_index + 2] \notin {"/", "*"})
                 <=> tokens' = Append(tokens, Token("fslash", line_count, NoValue))
              /\ ~(m_index + 1 = Len(m_src) \/ m_src[m_index + 2] \notin {"/", "*"})
                 => tokens' = tokens
              /\ tokens' # tokens => m_index' = m_index + 1
        /\ (pc = "scan" /\ OpensBlock(m_index))
           => /\ tokens' = tokens
              /\ m_index' =
                    IF Closers(m_index) = {} THEN Len(m_src)
                    ELSE (CHOOSE k \in Closers(m_index) :
                              \A j \in Closers(m_index) : k <= j) + 2
        /\ (pc' = "idle" /\ returned' # <<>> /\ m_src' = <<"/", "*", "/">>)
           => tokens' = <<>>
        /\ (pc' = "idle" /\ returned' # <<>> /\ m_src' = NestedExample)
           => tokens' = <<Token("ident", 1, Some(<<"x">>))>> ]_vars

\* a call returned x alone for "/* /* */ x": the comment ended at the first */
C19_Witness ==
    /\ Returned
    /\ m_src = NestedExample
    /\ tokens = <<Token("ident", 1, Some(<<"x">>))>>
    /\ starts = <<9>>

\* the cursor at which the maximal run of digits that starts at cursor i ends
DigitRunEnd(i) ==
    CHOOSE j \in (i + 1)..Len(m_src) :
        /\ \A k \in (i + 1)..j : isdigit(m_src[k])
        /\ j = Len(m_src) \/ ~isdigit(m_src[j + 1])

\* C20: when the scan is at a digit, the step appends exactly one int_lit token whose payload
\* is the whole maximal run of digits, of any length and with its leading zeros, and moves
\* the cursor to the end of the run without an error, also when a letter follows the run;
\* "01" yields int_lit("01") and "12ab" yields int_lit("12") and then ident("ab").
C20_DigitRunYieldsOneIntLit ==
    [][ /\ (pc = "scan" /\ m_index < Len(m_src) /\ isdigit(m_src[m_index + 1]))
           => /\ tokens' = Append(tokens,
                      Token("int_lit", line_count,
                            Some(SubSeq(m_src, m_index + 1, DigitRunEnd(m_index)))))
              /\ m_index' = DigitRunEnd(m_index)
              /\ pc' = "scan"
        /\ (pc' = "idle" /\ returned' # <<>> /\ m_src' = <<"0", "1">>)
           => tokens' = <<Token("int_lit", 1, Some(<<"0", "1">>))>>
        /\ (pc' = "idle" /\ returned' # <<>> /\ m_src' = <<"1", "2", "a", "b">>)
           => tokens' = <<Token("int_lit", 1, Some(<<"1", "2">>)),
                          Token("ident", 1, Some(<<"a", "b">>))>> ]_vars

\* a call returned int_lit("12") and ident("ab") for "12ab"
C20_Witness ==
    /\ Returned
    /\ m_src = <<"1", "2", "a", "b">>
    /\ Len(tokens) = 2
    /\ tokens[1] = Token("int_lit", 1, Some(<<"1", "2">>))
    /\ tokens[2].type = "ident"
    /\ starts = <<0, 2>>

=============================================================================
